---- MODULE Spec2Model ----
(***************************************************************************)
(* Model of gen192 (src/src/gen192/cli.py): the nested-path accessors, the *)
(* pipeline configuration documents, the enumeration and naming of the     *)
(* pipeline combinations, the merge of one combination and the main loop.  *)
(*                                                                         *)
(* Python values are modelled as follows.                                  *)
(*   - a str is the sequence of its characters (one-character strings);    *)
(*     dictionary keys, which the program never takes apart, are strings;  *)
(*   - a value of a configuration tree is a record [t, n, s, items]:       *)
(*     t is the Python type, n the address of a dict (t = "dict") or the   *)
(*     truth value of a bool, s the characters of a str, items the         *)
(*     elements of a list;                                                 *)
(*   - dicts are objects of a heap (address -> key -> value), so that two  *)
(*     references to one dict are distinguishable from two equal dicts.    *)
(***************************************************************************)
EXTENDS Integers, Sequences, FiniteSets, TLC

VARIABLES
    pc,               \* position of the running program
    heap,             \* the dict objects: address -> (key -> value)
    disk,             \* build/cpac_source_configs_*: pipeline id -> file content
    configs,          \* ConfigLookupTable: pipeline id -> PipelineConfig
    it,               \* loop counters of the generator iter_pipeline_combis
    pipeline_num,     \* enumerate() counter of main's loop
    combi,            \* the PipelineCombination being processed
    pipeline,         \* generate_pipeline_from_combi: the clone of the base
    pipeline_perturb, \* generate_pipeline_from_combi: the clone of the donor
    mp,               \* index of the merge path being processed
    snippet,          \* generate_pipeline_from_combi: result of the last multi_get
    rets,             \* return values of the multi_set calls of the current generation
    returned,         \* documents returned by generate_pipeline_from_combi
    files,            \* build/gen192_nofork: filename -> file content
    warnings,         \* the WARNING lines printed so far
    inp,              \* arguments of the pure function under check
    out               \* its result

vars == <<pc, heap, disk, configs, it, pipeline_num, combi, pipeline,
          pipeline_perturb, mp, snippet, rets, returned, files, warnings, inp, out>>

----------------------------------------------------------------------------
(* Characters and strings *)

UpperChars == <<"A","B","C","D","E","F","G","H","I","J","K","L","M",
                "N","O","P","Q","R","S","T","U","V","W","X","Y","Z">>

LowerChars == <<"a","b","c","d","e","f","g","h","i","j","k","l","m",
                "n","o","p","q","r","s","t","u","v","w","x","y","z">>

DigitChars == <<"0","1","2","3","4","5","6","7","8","9">>

Range(f) == {f[x] : x \in DOMAIN f}

UpperSet == Range(UpperChars)

LowerSet == Range(LowerChars)

DigitSet == Range(DigitChars)

IsLetter(c) == c \in UpperSet \cup LowerSet

IsDigit(c) == c \in DigitSet

\* the regular expression class \w on str patterns: letters, digits and "_"
IsWordChar(c) == IsLetter(c) \/ IsDigit(c) \/ c = "_"

\* str.lower() on one character
LowerOf == [c \in UpperSet |-> LowerChars[CHOOSE i \in DOMAIN UpperChars : UpperChars[i] = c]]

LowerChar(c) == IF c \in UpperSet THEN LowerOf[c] ELSE c

lower(s) == [i \in DOMAIN s |-> LowerChar(s[i])]

RECURSIVE Flatten(_)
Flatten(ss) == IF ss = <<>> THEN <<>> ELSE Head(ss) \o Flatten(Tail(ss))

\* re.sub(r"[^\w\d-]", replacement, s): every character outside the class
\* is replaced by the replacement string
re_sub(replacement, s) ==
    Flatten([i \in DOMAIN s |->
               IF IsWordChar(s[i]) \/ IsDigit(s[i]) \/ s[i] = "-"
               THEN <<s[i]>> ELSE replacement])

filesafe(s, replacement) == lower(re_sub(replacement, s))

Hyphen == <<"-">>

\* decimal digits of a natural number, most significant first
RECURSIVE Decimal(_)
Decimal(n) ==
    IF n < 10 THEN <<DigitChars[n + 1]>>
    ELSE Decimal(n \div 10) \o <<DigitChars[(n % 10) + 1]>>

RECURSIVE ZeroPad(_, _)
ZeroPad(s, width) == IF Len(s) >= width THEN s ELSE ZeroPad(<<"0">> \o s, width)

Format03d_mut_truncate(n) == ZeroPad(Decimal(n % 1000), 3)

\* the format specification {pipeline_num:03d}
Format03d(n) == ZeroPad(Decimal(n), 3)

\* str() of a bool
StrOfBool(b) == IF b THEN <<"T","r","u","e">> ELSE <<"F","a","l","s","e">>

----------------------------------------------------------------------------
(* Static tables *)

S_ABCD == <<"A","B","C","D">>
S_CCS == <<"C","C","S">>
S_RBC == <<"R","B","C">>
S_fMRIPrep == <<"f","M","R","I","P","r","e","p">>

ID_ABCD == <<"c","p","a","c","_","a","b","c","d","-","o","p","t","i","o","n","s">>
ID_CCS == <<"c","p","a","c","_","c","c","s","-","o","p","t","i","o","n","s">>
ID_RBC == <<"R","B","C","v","0">>
ID_fMRIPrep == <<"c","p","a","c","_","f","m","r","i","p","r","e","p","-",
                 "o","p","t","i","o","n","s">>

\* the items of the dict, in insertion order
PIPELINE_NAMES ==
    << [label |-> S_ABCD, id |-> ID_ABCD],
       [label |-> S_CCS, id |-> ID_CCS],
       [label |-> S_RBC, id |-> ID_RBC],
       [label |-> S_fMRIPrep, id |-> ID_fMRIPrep] >>

CONNECTIVITY_METHODS == << <<"A","F","N","I">>, <<"N","i","l","e","a","r","n">> >>

NUISANCE_METHODS == <<TRUE, FALSE>>

PIPELINE_STEPS ==
    << [name |-> <<"S","t","r","u","c","t","u","r","a","l"," ",
                   "M","a","s","k","i","n","g">>,
        merge_paths |-> << <<"anatomical_preproc">> >>],
       [name |-> <<"S","t","r","u","c","t","u","r","a","l"," ",
                   "R","e","g","i","s","t","r","a","t","i","o","n">>,
        merge_paths |-> << <<"registration_workflows", "anatomical_registration">> >>],
       [name |-> <<"F","u","n","c","t","i","o","n","a","l"," ",
                   "M","a","s","k","i","n","g">>,
        merge_paths |-> << <<"functional_preproc", "func_masking">> >>],
       [name |-> <<"F","u","n","c","t","i","o","n","a","l"," ",
                   "R","e","g","i","s","t","r","a","t","i","o","n">>,
        merge_paths |-> << <<"registration_workflows", "functional_registration",
                             "coregistration">> >>] >>

----------------------------------------------------------------------------
(* PipelineCombination *)

PipelineCombination(b, d, st, cm, nm) ==
    [pipeline_label |-> b.label, pipeline_id |-> b.id,
     pipeline_perturb_label |-> d.label, pipeline_perturb_id |-> d.id,
     step |-> st, connectivity_method |-> cm, use_nuisance_correction |-> nm]

name(c, num) ==
    <<"p">> \o Format03d(num) \o <<"_">>
    \o <<"b","a","s","e","-">> \o filesafe(c.pipeline_label, Hyphen) \o <<"_">>
    \o <<"p","e","r","t","u","r","b","-">>
    \o filesafe(c.pipeline_perturb_label, Hyphen) \o <<"_">>
    \o <<"s","t","e","p","-">> \o filesafe(c.step.name, Hyphen) \o <<"_">>
    \o <<"c","o","n","n","-">> \o filesafe(c.connectivity_method, Hyphen) \o <<"_">>
    \o <<"n","u","i","s","a","n","c","e","-">>
    \o filesafe(StrOfBool(c.use_nuisance_correction), Hyphen)

filename(c, num) == name(c, num) \o <<".","y","m","l">>

----------------------------------------------------------------------------
(* Values of a configuration tree and the heap of dict objects *)

NoneVal == [t |-> "NoneType", n |-> 0, s |-> <<>>, items |-> <<>>]

Bool(b) == [t |-> "bool", n |-> IF b THEN 1 ELSE 0, s |-> <<>>, items |-> <<>>]

Str(chars) == [t |-> "str", n |-> 0, s |-> chars, items |-> <<>>]

List(elems) == [t |-> "list", n |-> 0, s |-> <<>>, items |-> elems]

\* a reference to the dict object at address a
Ref(a) == [t |-> "dict", n |-> a, s |-> <<>>, items |-> <<>>]

\* isinstance(obj, dict)
IsDict(v) == v.t = "dict"

EmptyDict == [k \in {} |-> NoneVal]

\* obj[k] = v on a dict object
Put(d, k, v) == (k :> v) @@ d

\* del obj[k] on a dict object
Del(d, k) == [x \in DOMAIN d \ {k} |-> d[x]] @@ <<>>

\* the address of a newly created dict: the lowest one not in use
NewAddr(h) == CHOOSE a \in 1..(Cardinality(DOMAIN h) + 1) :
                  a \notin DOMAIN h /\ \A b \in 1..(a - 1) : b \in DOMAIN h

Alloc(h, a, d) == (a :> d) @@ h

\* the addresses of the dicts reachable from a value
RECURSIVE Reach(_, _)
Reach(h, v) ==
    IF ~IsDict(v) THEN {}
    ELSE {v.n} \cup UNION {Reach(h, h[v.n][k]) : k \in DOMAIN h[v.n]}

\* the marker of a mapping node in the serialized form of a tree
DictMark == Ref(0)

\* yaml.dump: the serialized form of the tree under a value, as the set of
\* its <<path, node>> pairs; a mapping node is DictMark, any other node the value
RECURSIVE yaml_dump(_, _)
yaml_dump(h, v) ==
    IF ~IsDict(v) THEN {<< <<>>, v >>}
    ELSE {<< <<>>, DictMark >>}
         \cup UNION {{<< <<k>> \o e[1], e[2] >> : e \in yaml_dump(h, h[v.n][k])} :
                       k \in DOMAIN h[v.n]}

\* the part of a serialized tree under key k
SubDoc(doc, k) ==
    {<<Tail(e[1]), e[2]>> : e \in {x \in doc : x[1] # <<>> /\ Head(x[1]) = k}}

TopKeys(doc) == {Head(e[1]) : e \in {x \in doc : x[1] # <<>>}}

\* e, with the heap h evaluated first (operator arguments are evaluated
\* on demand, and a long chain of pending heap updates is to be avoided)
Strict(h, e) == IF DOMAIN h = {} THEN e ELSE e

\* yaml.safe_load: builds the tree of a serialized document on the heap;
\* the result is [heap, val]
RECURSIVE yaml_safe_load(_, _), LoadItems(_, _, _, _)
yaml_safe_load(h, doc) ==
    LET root == (CHOOSE e \in doc : e[1] = <<>>)[2]
    IN  IF ~IsDict(root) THEN [heap |-> h, val |-> root]
        ELSE LET a == NewAddr(h)
             IN  LoadItems(Alloc(h, a, EmptyDict), a, doc, TopKeys(doc))

LoadItems(h, a, doc, keys) ==
    IF keys = {} THEN [heap |-> h, val |-> Ref(a)]
    ELSE LET k == CHOOSE x \in keys : TRUE
             r == yaml_safe_load(h, SubDoc(doc, k))
             h1 == [r.heap EXCEPT ![a] = Put(@, k, r.val)]
         IN  Strict(h1, LoadItems(h1, a, doc, keys \ {k}))

\* copy.deepcopy of a tree: every dict reachable from the value is copied to
\* a new object; the result is [heap, val]
RECURSIVE deepcopy(_, _), CopyItems(_, _, _, _)
deepcopy(h, v) ==
    IF ~IsDict(v) THEN [heap |-> h, val |-> v]
    ELSE LET a == NewAddr(h)
         IN  CopyItems(Alloc(h, a, EmptyDict), a, v.n, DOMAIN h[v.n])

CopyItems(h, a, src, keys) ==
    IF keys = {} THEN [heap |-> h, val |-> Ref(a)]
    ELSE LET k == CHOOSE x \in keys : TRUE
             r == deepcopy(h, h[src][k])
             h1 == [r.heap EXCEPT ![a] = Put(@, k, r.val)]
         IN  Strict(h1, CopyItems(h1, a, src, keys \ {k}))

----------------------------------------------------------------------------
(* Path accessors *)

RECURSIVE multi_get(_, _, _)
multi_get(h, obj, index) ==
    IF index = <<>> THEN obj
    ELSE IF ~IsDict(obj) \/ Head(index) \notin DOMAIN h[obj.n] THEN NoneVal
    ELSE multi_get(h, h[obj.n][Head(index)], Tail(index))

\* mutant: a non-mapping node on the way is replaced by a new mapping
RECURSIVE multi_set_mut_overwrite(_, _, _, _)
multi_set_mut_overwrite(h, obj, index, value) ==
    IF index = <<>> THEN [heap |-> h, ret |-> "AssertionError"]
    ELSE IF ~IsDict(obj) THEN [heap |-> h, ret |-> "False"]
    ELSE IF Len(index) = 1
    THEN [heap |-> [h EXCEPT ![obj.n] = Put(@, Head(index), value)], ret |-> "True"]
    ELSE IF Head(index) \notin DOMAIN h[obj.n] \/ ~IsDict(h[obj.n][Head(index)])
    THEN LET a == NewAddr(h)
             h1 == Alloc([h EXCEPT ![obj.n] = Put(@, Head(index), Ref(a))], a, EmptyDict)
         IN  multi_set_mut_overwrite(h1, Ref(a), Tail(index), value)
    ELSE multi_set_mut_overwrite(h, h[obj.n][Head(index)], Tail(index), value)

\* the result is [heap, ret]; ret is "True", "False" or, for the empty
\* index, "AssertionError"
RECURSIVE multi_set(_, _, _, _)
multi_set(h, obj, index, value) ==
    IF index = <<>> THEN [heap |-> h, ret |-> "AssertionError"]
    ELSE IF ~IsDict(obj) THEN [heap |-> h, ret |-> "False"]
    ELSE IF Len(index) = 1
    THEN [heap |-> [h EXCEPT ![obj.n] = Put(@, Head(index), value)], ret |-> "True"]
    ELSE IF Head(index) \notin DOMAIN h[obj.n]
    THEN LET a == NewAddr(h)
             h1 == Alloc([h EXCEPT ![obj.n] = Put(@, Head(index), Ref(a))], a, EmptyDict)
         IN  multi_set(h1, Ref(a), Tail(index), value)
    ELSE multi_set(h, h[obj.n][Head(index)], Tail(index), value)

\* the result is [heap, ret]; ret is the deleted value or None
RECURSIVE multi_del(_, _, _)
multi_del(h, obj, index) ==
    IF index = <<>> THEN [heap |-> h, ret |-> NoneVal]
    ELSE IF ~IsDict(obj) THEN [heap |-> h, ret |-> NoneVal]
    ELSE IF Len(index) = 1
    THEN IF Head(index) \in DOMAIN h[obj.n]
         THEN [heap |-> [h EXCEPT ![obj.n] = Del(@, Head(index))],
               ret |-> h[obj.n][Head(index)]]
         ELSE [heap |-> h, ret |-> NoneVal]
    ELSE IF Head(index) \notin DOMAIN h[obj.n] THEN [heap |-> h, ret |-> NoneVal]
    ELSE multi_del(h, h[obj.n][Head(index)], Tail(index))

aslist(obj) == IF obj.t = "list" THEN obj ELSE List(<<obj>>)

----------------------------------------------------------------------------
(* Serialized documents, written as nested constructors *)

Scalar(v) == {<< <<>>, v >>}

\* f: key -> serialized document
Mapping(f) ==
    {<< <<>>, DictMark >>}
    \cup UNION {{<< <<k>> \o e[1], e[2] >> : e \in f[k]} : k \in DOMAIN f}

IsPrefix(p, q) == Len(p) <= Len(q) /\ SubSeq(q, 1, Len(p)) = p

ProperPrefixes(p) == {SubSeq(p, 1, n) : n \in 0..(Len(p) - 1)}

----------------------------------------------------------------------------
(* The path accessors applied to bounded trees, paths and values *)

MaxDepth == 2

MaxLen == 3

PathKeys == {"a", "b"}

\* the serialized trees of depth at most d over PathKeys
RECURSIVE TreesOfDepth(_)
TreesOfDepth(d) ==
    IF d = 0 THEN {Scalar(Str(<<"x">>))}
    ELSE LET sub == TreesOfDepth(d - 1)
         IN  {Scalar(Str(<<"x">>))}
             \cup UNION {{Mapping(f) : f \in [ks -> sub]} : ks \in SUBSET PathKeys}

PathTrees == {tr \in TreesOfDepth(MaxDepth) : << <<>>, DictMark >> \in tr}

PathIndexes == UNION {[1..n -> PathKeys] : n \in 1..MaxLen}

PathValues == {NoneVal, Str(<<"y">>)}

NoCombi == PipelineCombination(PIPELINE_NAMES[1], PIPELINE_NAMES[1], PIPELINE_STEPS[1],
                               CONNECTIVITY_METHODS[1], NUISANCE_METHODS[1])

NoDoc == [name |-> NoneVal, file |-> <<>>, config |-> NoneVal]

\* the variables a specification does not use
IdleMain ==
    /\ disk = <<>> /\ configs = <<>> /\ it = <<>> /\ pipeline_num = 0
    /\ combi = NoCombi /\ files = <<>> /\ warnings = {}

IdleGen ==
    /\ pipeline = NoDoc /\ pipeline_perturb = NoDoc /\ mp = 0
    /\ snippet = NoneVal /\ rets = <<>> /\ returned = <<>>

InitPath ==
    /\ \E tr \in PathTrees, index \in PathIndexes, value \in PathValues :
          LET r == yaml_safe_load(<<>>, tr)
          IN  /\ heap = r.heap
              /\ inp = [obj |-> r.val, index |-> index, value |-> value, before |-> tr]
    /\ pc = "path_call"
    /\ out = [ret |-> "", got |-> NoneVal]
    /\ IdleMain /\ IdleGen

SetPath ==
    /\ pc = "path_call"
    /\ LET r == multi_set(heap, inp.obj, inp.index, inp.value)
       IN  /\ heap' = r.heap
           /\ out' = [ret |-> r.ret, got |-> multi_get(r.heap, inp.obj, inp.index)]
    /\ pc' = "set_done"
    /\ UNCHANGED <<disk, configs, it, pipeline_num, combi, pipeline, pipeline_perturb,
                   mp, snippet, rets, returned, files, warnings, inp>>

DelPath ==
    /\ pc = "path_call"
    /\ LET r == multi_del(heap, inp.obj, inp.index)
       IN  /\ heap' = r.heap
           /\ out' = [ret |-> "", got |-> r.ret]
    /\ pc' = "del_done"
    /\ UNCHANGED <<disk, configs, it, pipeline_num, combi, pipeline, pipeline_perturb,
                   mp, snippet, rets, returned, files, warnings, inp>>

NextPath == SetPath \/ DelPath

SpecPath == InitPath /\ [][NextPath]_vars

\* a node reached before the final key exists and is not a mapping
Blocked(doc, index) ==
    \E q \in ProperPrefixes(index) : \E e \in doc : e[1] = q /\ e[2] # DictMark

\* the tree after a successful set: the old subtree at the path is gone, the
\* value is at the path, every node above it is a mapping
AfterSet(doc, index, value) ==
    {e \in doc : ~IsPrefix(index, e[1])}
    \cup {<<q, DictMark>> : q \in ProperPrefixes(index)}
    \cup {<<index, value>>}

\* C8: multi_set returns False exactly when a node reached before the final
\* key exists and is not a mapping, and then the tree is unmodified; in
\* every other case it returns True, the missing intermediate keys hold new
\* mappings, and multi_get at the same path returns the value that was set.
C8_MultiSet ==
    pc = "set_done" =>
        LET after == yaml_dump(heap, inp.obj)
        IN  IF Blocked(inp.before, inp.index)
            THEN out.ret = "False" /\ after = inp.before
            ELSE /\ out.ret = "True"
                 /\ after = AfterSet(inp.before, inp.index, inp.value)
                 /\ out.got = inp.value

\* a set through a scalar two levels down has failed
C8_Witness ==
    /\ pc = "set_done" /\ out.ret = "False"
    /\ Len(inp.index) = 3
    /\ <<SubSeq(inp.index, 1, 1), DictMark>> \in inp.before
    /\ <<SubSeq(inp.index, 1, 2), Str(<<"x">>)>> \in inp.before

----------------------------------------------------------------------------
(* filesafe applied to bounded strings *)

MaxStr == 2

FsChars == {"A", "b", "1", "-", "_", " ", ".", "/"}

FsStrings == UNION {[1..n -> FsChars] : n \in 0..MaxStr}

InitFilesafe ==
    /\ \E str \in FsStrings : inp = [s |-> str]
    /\ pc = "filesafe_call"
    /\ out = <<>>
    /\ heap = <<>>
    /\ IdleMain /\ IdleGen

ApplyFilesafe ==
    /\ pc = "filesafe_call"
    /\ out' = filesafe(inp.s, Hyphen)
    /\ pc' = "filesafe_done"
    /\ UNCHANGED <<heap, disk, configs, it, pipeline_num, combi, pipeline,
                   pipeline_perturb, mp, snippet, rets, returned, files, warnings, inp>>

NextFilesafe == ApplyFilesafe

SpecFilesafe == InitFilesafe /\ [][NextFilesafe]_vars

\* C10: filesafe with the default replacement returns the string in which
\* every character that is not a letter, a digit or a hyphen is replaced by
\* a hyphen, lowercased; the result holds only lowercase letters, digits
\* and hyphens (no underscore survives).
C10_Filesafe ==
    pc = "filesafe_done" =>
        /\ out = [i \in DOMAIN inp.s |->
                    IF IsLetter(inp.s[i]) \/ IsDigit(inp.s[i]) \/ inp.s[i] = "-"
                    THEN LowerChar(inp.s[i]) ELSE "-"]
        /\ \A i \in DOMAIN out :
              out[i] \in LowerSet \cup DigitSet \cup {"-"}

----------------------------------------------------------------------------
(* name and filename applied to pairs of combinations and sequence numbers *)

NameLabels == {S_ABCD, <<"a", " ", "b">>, <<"a", "-", "b">>, <<"a", "_", "b">>}

NameCombis ==
    {PipelineCombination([label |-> l, id |-> ID_ABCD], PIPELINE_NAMES[2], st, cm,
                         NUISANCE_METHODS[1]) :
        l \in NameLabels, st \in {PIPELINE_STEPS[1], PIPELINE_STEPS[2]},
        cm \in Range(CONNECTIVITY_METHODS)}

\* sequence numbers around the ends of a run (0, 191) and around the
\* widths of the number field
NumSamples == {0, 1, 9, 10, 99, 100, 191, 999, 1000, 1001}

InitName ==
    /\ \E c1 \in NameCombis, c2 \in NameCombis, n1 \in NumSamples, n2 \in NumSamples :
          inp = [c1 |-> c1, n1 |-> n1, c2 |-> c2, n2 |-> n2]
    /\ pc = "name_call"
    /\ out = <<>>
    /\ heap = <<>>
    /\ IdleMain /\ IdleGen

ApplyName ==
    /\ pc = "name_call"
    /\ out' = [f1 |-> filename(inp.c1, inp.n1), f2 |-> filename(inp.c2, inp.n2)]
    /\ pc' = "name_done"
    /\ UNCHANGED <<heap, disk, configs, it, pipeline_num, combi, pipeline,
                   pipeline_perturb, mp, snippet, rets, returned, files, warnings, inp>>

NextName == ApplyName

SpecName == InitName /\ [][NextName]_vars

\* C7: two combinations with different sequence numbers never get the same
\* filename, whatever their labels, step names and parameter values.
C7_Injective ==
    (pc = "name_done" /\ inp.n1 # inp.n2) => out.f1 # out.f2

\* two different combinations whose label tokens collapse to the same text
\* have been named with different sequence numbers
C7_Witness ==
    /\ pc = "name_done" /\ inp.n1 # inp.n2 /\ inp.c1 # inp.c2
    /\ name(inp.c1, 0) = name(inp.c2, 0)

----------------------------------------------------------------------------
(* PipelineConfig *)

PipelineConfig(nm, file, config) == [name |-> nm, file |-> file, config |-> config]

NamePath == <<"pipeline_setup", "pipeline_name">>

clone_mut_shallow(h, doc) ==
    [heap |-> h, doc |-> PipelineConfig(doc.name, doc.file, doc.config)]

\* the result is [heap, doc]
clone(h, doc) ==
    LET r == deepcopy(h, doc.config)
    IN  [heap |-> r.heap, doc |-> PipelineConfig(doc.name, doc.file, r.val)]

set_name_mut_field_only(h, doc, nm) ==
    [heap |-> h, doc |-> [doc EXCEPT !.name = Str(nm)], raised |-> FALSE]

\* the result is [heap, doc, raised]; the name field is assigned before the
\* subscription of the tree, which raises when config["pipeline_setup"] is
\* missing or not a dict
set_name(h, doc, nm) ==
    LET named == [doc EXCEPT !.name = Str(nm)]
        root == doc.config
    IN  IF IsDict(root) /\ "pipeline_setup" \in DOMAIN h[root.n]
           /\ IsDict(h[root.n]["pipeline_setup"])
        THEN [heap |-> [h EXCEPT ![h[root.n]["pipeline_setup"].n] =
                                    Put(@, "pipeline_name", Str(nm))],
              doc |-> named, raised |-> FALSE]
        ELSE [heap |-> h, doc |-> named, raised |-> TRUE]

\* the result is [heap, doc]; called on documents that have a pipeline name
load_pipeline_config(h, file, content) ==
    LET r == yaml_safe_load(h, content)
    IN  [heap |-> r.heap,
         doc |-> PipelineConfig(multi_get(r.heap, r.val, NamePath), file, r.val)]

RECURSIVE UniqueName(_, _)
UniqueName(nm, cfgs) ==
    IF nm \in DOMAIN cfgs THEN UniqueName(nm \o <<"_", "d", "u", "p">>, cfgs) ELSE nm

\* the result is [heap, configs]; d: file -> content. The order in which
\* glob yields the files only matters for files of the same pipeline name.
RECURSIVE LoadFiles(_, _, _, _)
LoadFiles(h, cfgs, d, todo) ==
    IF todo = {} THEN [heap |-> h, configs |-> cfgs]
    ELSE LET f == CHOOSE x \in todo : TRUE
             r == load_pipeline_config(h, <<"cpac_source_configs", f>>, d[f])
             key == UniqueName(r.doc.name.s, cfgs)
         IN  Strict(r.heap, LoadFiles(r.heap, (key :> r.doc) @@ cfgs, d, todo \ {f}))

cpac_dir_to_lookup(h, d) == LoadFiles(h, <<>>, d, DOMAIN d)

\* the dict objects still referenced from a set of documents
Live(h, docs) ==
    LET keep == UNION {Reach(h, doc.config) : doc \in docs}
    IN  [a \in keep |-> h[a]] @@ <<>>

----------------------------------------------------------------------------
(* generate_pipeline_from_combi, one action per statement *)

TsRunPath == <<"timeseries_extraction", "run">>
TsUsingPath == <<"timeseries_extraction", "connectivity_matrix", "using">>
TsMeasurePath == <<"timeseries_extraction", "connectivity_matrix", "measure">>
NuisancePath == <<"nuisance_corrections", "2-nuisance_regression", "run">>

Pearson == Str(<<"P", "e", "a", "r", "s", "o", "n">>)

\* pipeline = configs[...].clone(); pipeline_perturb = configs[...].clone().
\* The locals of the previous call are gone: their dicts are released unless
\* a returned document still refers to them.
GenClone ==
    /\ pc = "gen_clone"
    /\ LET h0 == Live(heap, Range(configs) \cup Range(returned))
           r1 == clone(h0, configs[combi.pipeline_id])
           r2 == clone(r1.heap, configs[combi.pipeline_perturb_id])
       IN  /\ heap' = r2.heap
           /\ pipeline' = r1.doc
           /\ pipeline_perturb' = r2.doc
    /\ mp' = 1
    /\ snippet' = NoneVal
    /\ rets' = <<>>
    /\ pc' = "gen_merge"
    /\ UNCHANGED <<disk, configs, it, pipeline_num, combi, returned, files, warnings,
                   inp, out>>

\* one iteration of the loop over combi.step.merge_paths
GenMerge ==
    /\ pc = "gen_merge"
    /\ mp <= Len(combi.step.merge_paths)
    /\ LET merge_path == combi.step.merge_paths[mp]
           got == multi_get(heap, pipeline_perturb.config, merge_path)
       IN  /\ snippet' = got
           /\ IF got = NoneVal
              THEN /\ warnings' = warnings \cup
                                    {[path |-> merge_path, name |-> pipeline_perturb.name]}
                   /\ heap' = multi_del(heap, pipeline.config, merge_path).heap
                   /\ rets' = rets
              ELSE LET r == multi_set(heap, pipeline.config, merge_path, got)
                   IN  /\ heap' = r.heap
                       /\ rets' = Append(rets, [path |-> merge_path, ret |-> r.ret])
                       /\ warnings' = warnings
    /\ mp' = mp + 1
    /\ UNCHANGED <<pc, disk, configs, it, pipeline_num, combi, pipeline,
                   pipeline_perturb, returned, files, inp, out>>

\* a multi_set call whose return value is dropped
GenSet(from, to, path, value) ==
    /\ pc = from
    /\ LET r == multi_set(heap, pipeline.config, path, value)
       IN  /\ heap' = r.heap
           /\ rets' = Append(rets, [path |-> path, ret |-> r.ret])
    /\ pc' = to
    /\ UNCHANGED <<disk, configs, it, pipeline_num, combi, pipeline, pipeline_perturb,
                   mp, snippet, returned, files, warnings, inp, out>>

GenMergeDone ==
    /\ pc = "gen_merge"
    /\ mp > Len(combi.step.merge_paths)
    /\ pc' = "gen_run"
    /\ UNCHANGED <<heap, disk, configs, it, pipeline_num, combi, pipeline,
                   pipeline_perturb, mp, snippet, rets, returned, files, warnings,
                   inp, out>>

GenSetRun == GenSet("gen_run", "gen_using", TsRunPath, Bool(TRUE))

GenSetUsing ==
    GenSet("gen_using", "gen_measure", TsUsingPath, aslist(Str(combi.connectivity_method)))

GenSetMeasure == GenSet("gen_measure", "gen_nuisance", TsMeasurePath, aslist(Pearson))

GenSetNuisance ==
    GenSet("gen_nuisance", "gen_set_name", NuisancePath,
           aslist(Bool(combi.use_nuisance_correction)))

\* pipeline.set_name(combi.name(pipeline_num)); return pipeline
GenSetName ==
    /\ pc = "gen_set_name"
    /\ LET r == set_name(heap, pipeline, name(combi, pipeline_num))
       IN  /\ heap' = r.heap
           /\ pipeline' = r.doc
           /\ pc' = IF r.raised THEN "raised" ELSE "gen_return"
    /\ UNCHANGED <<disk, configs, it, pipeline_num, combi, pipeline_perturb, mp,
                   snippet, rets, returned, files, warnings, inp, out>>

Generate ==
    \/ GenClone \/ GenMerge \/ GenMergeDone \/ GenSetRun \/ GenSetUsing
    \/ GenSetMeasure \/ GenSetNuisance \/ GenSetName

----------------------------------------------------------------------------
(* Source configurations *)

Leaf(tag) == Scalar(Str(tag))

Off == Scalar(Str(<<"o", "f", "f">>))

Null == Scalar(NoneVal)

Setup(id) == Mapping([pipeline_name |-> Leaf(id)])

Stage(tag) == Mapping([run |-> Leaf(tag)])

StageExtra(tag) == Mapping([run |-> Leaf(tag), extra |-> Leaf(tag)])

\* every merged stage is a mapping, the swept sections exist
DocFull(id) ==
    Mapping([pipeline_setup |-> Setup(id),
             anatomical_preproc |-> Stage(id),
             registration_workflows |->
                 Mapping([anatomical_registration |-> Stage(id),
                          functional_registration |->
                              Mapping([coregistration |-> Stage(id)])]),
             functional_preproc |-> Mapping([func_masking |-> Stage(id)]),
             timeseries_extraction |->
                 Mapping([run |-> Scalar(Bool(FALSE)),
                          connectivity_matrix |->
                              Mapping([using |-> Scalar(List(<<>>)),
                                       measure |-> Scalar(List(<<>>))])]),
             nuisance_corrections |->
                 Mapping("2-nuisance_regression" :>
                             Mapping([run |-> Scalar(List(<<Bool(FALSE)>>))]))])

\* the stages hold a key the other documents do not; no swept section
DocExtra(id) ==
    Mapping([pipeline_setup |-> Setup(id),
             anatomical_preproc |-> StageExtra(id),
             registration_workflows |->
                 Mapping([anatomical_registration |-> StageExtra(id),
                          functional_registration |->
                              Mapping([coregistration |-> StageExtra(id)])]),
             functional_preproc |-> Mapping([func_masking |-> StageExtra(id)])])

\* nothing but the name
DocBare(id) == Mapping([pipeline_setup |-> Setup(id)])

\* the stages and the swept sections are present and null
DocNull(id) ==
    Mapping([pipeline_setup |-> Setup(id),
             anatomical_preproc |-> Null,
             registration_workflows |->
                 Mapping([anatomical_registration |-> Null,
                          functional_registration |-> Mapping([coregistration |-> Null])]),
             functional_preproc |-> Mapping([func_masking |-> Null]),
             timeseries_extraction |-> Null,
             nuisance_corrections |-> Mapping("2-nuisance_regression" :> Null)])

\* scalars where the paths expect mappings
DocScalar(id) ==
    Mapping([pipeline_setup |-> Setup(id),
             anatomical_preproc |-> Off,
             registration_workflows |-> Off,
             functional_preproc |-> Off,
             timeseries_extraction |->
                 Mapping([run |-> Scalar(Bool(FALSE)), connectivity_matrix |-> Off]),
             nuisance_corrections |-> Off])

\* configs = cpac_dir_to_lookup(dir_configs)
LoadConfigs ==
    /\ pc = "load"
    /\ LET r == cpac_dir_to_lookup(heap, disk)
       IN  /\ heap' = r.heap
           /\ configs' = r.configs
    /\ pc' = "loaded"
    /\ UNCHANGED <<disk, it, pipeline_num, combi, pipeline, pipeline_perturb, mp,
                   snippet, rets, returned, files, warnings, inp, out>>

----------------------------------------------------------------------------
(* generate_pipeline_from_combi called once on tables of every shape *)

Shapes(id) == {DocFull(id), DocExtra(id), DocBare(id), DocNull(id), DocScalar(id)}

GenDisks ==
    {(ID_ABCD :> a) @@ (ID_CCS :> b) @@ (ID_RBC :> DocFull(ID_RBC))
        @@ (ID_fMRIPrep :> DocExtra(ID_fMRIPrep)) :
        a \in Shapes(ID_ABCD), b \in Shapes(ID_CCS)}

AllCombis ==
    {PipelineCombination(PIPELINE_NAMES[b], PIPELINE_NAMES[d], PIPELINE_STEPS[st],
                         CONNECTIVITY_METHODS[cm], NUISANCE_METHODS[nm]) :
        b \in DOMAIN PIPELINE_NAMES, d \in DOMAIN PIPELINE_NAMES,
        st \in DOMAIN PIPELINE_STEPS, cm \in DOMAIN CONNECTIVITY_METHODS,
        nm \in DOMAIN NUISANCE_METHODS}

\* the combinations over the documents whose shape varies and one more
GenCombis ==
    {c \in AllCombis : /\ c.pipeline_id # c.pipeline_perturb_id
                       /\ ID_fMRIPrep \notin {c.pipeline_id, c.pipeline_perturb_id}}

GenNums == {0, 191}

InitGen ==
    /\ disk \in GenDisks
    /\ pc = "load"
    /\ heap = <<>> /\ configs = <<>> /\ it = <<>> /\ pipeline_num = 0
    /\ combi = NoCombi /\ files = <<>> /\ warnings = {}
    /\ IdleGen
    /\ inp = <<>> /\ out = <<>>

CallGen ==
    /\ pc = "loaded"
    /\ \E c \in GenCombis, num \in GenNums :
          /\ combi' = c
          /\ pipeline_num' = num
    /\ pc' = "gen_clone"
    /\ UNCHANGED <<heap, disk, configs, it, pipeline, pipeline_perturb, mp, snippet,
                   rets, returned, files, warnings, inp, out>>

\* the caller keeps the returned document
Collect ==
    /\ pc = "gen_return"
    /\ returned' = Append(returned, pipeline)
    /\ pc' = "idle"
    /\ UNCHANGED <<heap, disk, configs, it, pipeline_num, combi, pipeline,
                   pipeline_perturb, mp, snippet, rets, files, warnings, inp, out>>

NextGen == LoadConfigs \/ CallGen \/ Generate \/ Collect

SpecGen == InitGen /\ [][NextGen]_vars

\* the serialized subtree at a path; {} when the path is absent
DocAt(doc, path) ==
    {<<SubSeq(e[1], Len(path) + 1, Len(e[1])), e[2]>> :
        e \in {x \in doc : IsPrefix(path, x[1])}}

\* the document has a value at the path
HasPath(doc, path) == \E e \in doc : e[1] = path

Result == yaml_dump(heap, pipeline.config)

Donor == disk[combi.pipeline_perturb_id]

Base == disk[combi.pipeline_id]

\* C2: for every path of the combination's step at which the donor document
\* has a value (a null included), the returned document's subtree at the
\* path equals the donor's subtree, whatever the shape of the base.
C2_Splice ==
    pc = "gen_return" =>
        \A i \in DOMAIN combi.step.merge_paths :
            LET path == combi.step.merge_paths[i]
            IN  HasPath(Donor, path) => DocAt(Result, path) = DocAt(Donor, path)

\* C3: for every path of the step at which the donor has no value, the path
\* is absent from the returned document, a warning was printed, and the
\* generation completed with the sweep parameters and the new name applied.
C3_AbsentRemoved ==
    pc = "gen_return" =>
        \A i \in DOMAIN combi.step.merge_paths :
            LET path == combi.step.merge_paths[i]
            IN  ~HasPath(Donor, path) =>
                  /\ ~HasPath(Result, path)
                  /\ [path |-> path, name |-> pipeline_perturb.name] \in warnings
                  /\ DocAt(Result, TsRunPath) = Scalar(Bool(TRUE))
                  /\ DocAt(Result, TsUsingPath) =
                        Scalar(List(<<Str(combi.connectivity_method)>>))
                  /\ DocAt(Result, TsMeasurePath) = Scalar(List(<<Pearson>>))
                  /\ DocAt(Result, NuisancePath) =
                        Scalar(List(<<Bool(combi.use_nuisance_correction)>>))
                  /\ DocAt(Result, NamePath) = Scalar(Str(name(combi, pipeline_num)))
                  /\ pipeline.name = Str(name(combi, pipeline_num))

\* C4: whatever the shape of the base document, the returned document has
\* timeseries_extraction.run = True, connectivity_matrix.using = [method],
\* connectivity_matrix.measure = ["Pearson"] and
\* nuisance_corrections.2-nuisance_regression.run = [flag].
C4_SweepSet ==
    pc = "gen_return" =>
        /\ DocAt(Result, TsRunPath) = Scalar(Bool(TRUE))
        /\ DocAt(Result, TsUsingPath) = Scalar(List(<<Str(combi.connectivity_method)>>))
        /\ DocAt(Result, TsMeasurePath) = Scalar(List(<<Pearson>>))
        /\ DocAt(Result, NuisancePath) =
              Scalar(List(<<Bool(combi.use_nuisance_correction)>>))

\* the sweep cannot be written into the base: a node on one of the four
\* fixed paths exists and is not a mapping
SweepBlocked(doc) ==
    \E path \in {TsRunPath, TsUsingPath, TsMeasurePath, NuisancePath} : Blocked(doc, path)

\* the splice holds when the donor's value is not null and the base has no
\* non-mapping node on the way to the path
SpliceWhenSettable ==
    pc = "gen_return" =>
        \A i \in DOMAIN combi.step.merge_paths :
            LET path == combi.step.merge_paths[i]
            IN  (HasPath(Donor, path) /\ DocAt(Donor, path) # Null
                 /\ ~Blocked(Base, path))
                => DocAt(Result, path) = DocAt(Donor, path)

\* when the base has no non-mapping node on the sweep paths, the whole of
\* the statement on absent paths holds
AbsentRemovedWhenSettable == (pc = "gen_return" /\ ~SweepBlocked(Base)) => C3_AbsentRemoved

\* a path the donor lacks, or holds null at, is absent from the result, with
\* a warning, and the document is renamed
AbsentRemovedAndRenamed ==
    pc = "gen_return" =>
        \A i \in DOMAIN combi.step.merge_paths :
            LET path == combi.step.merge_paths[i]
            IN  (~HasPath(Donor, path) \/ DocAt(Donor, path) = Null) =>
                  /\ ~HasPath(Result, path)
                  /\ [path |-> path, name |-> pipeline_perturb.name] \in warnings
                  /\ DocAt(Result, NamePath) = Scalar(Str(name(combi, pipeline_num)))
                  /\ pipeline.name = Str(name(combi, pipeline_num))

\* the sweep is set when the base has no non-mapping node on its paths
SweepSetWhenSettable == (pc = "gen_return" /\ ~SweepBlocked(Base)) => C4_SweepSet

----------------------------------------------------------------------------
(* generate_pipeline_from_combi called repeatedly, the caller keeping and
   mutating the returned documents *)

MaxReturned == 2

MaxMutations == 2

AliasDisk ==
    (ID_ABCD :> DocFull(ID_ABCD)) @@ (ID_CCS :> DocExtra(ID_CCS))
    @@ (ID_RBC :> DocBare(ID_RBC)) @@ (ID_fMRIPrep :> DocFull(ID_fMRIPrep))

AliasCombis ==
    {c \in AllCombis : /\ c.pipeline_id # c.pipeline_perturb_id
                       /\ {c.pipeline_id, c.pipeline_perturb_id} = {ID_ABCD, ID_CCS}
                       /\ c.step \in {PIPELINE_STEPS[1], PIPELINE_STEPS[2]}
                       /\ c.connectivity_method = CONNECTIVITY_METHODS[1]
                       /\ c.use_nuisance_correction = NUISANCE_METHODS[1]}

\* inside a spliced stage, and the name
MutPaths == {<<"anatomical_preproc", "run">>, NamePath}

\* a spliced stage
DelPaths == {<<"registration_workflows", "anatomical_registration">>}

Mutated == Str(<<"m">>)

InitAlias ==
    /\ disk = AliasDisk
    /\ pc = "load"
    /\ heap = <<>> /\ configs = <<>> /\ it = <<>> /\ pipeline_num = 0
    /\ combi = NoCombi /\ files = <<>> /\ warnings = {}
    /\ IdleGen
    /\ inp = <<>> /\ out = 0

CallAlias ==
    /\ pc \in {"loaded", "idle"}
    /\ Len(returned) < MaxReturned
    /\ \E c \in AliasCombis : combi' = c
    /\ pipeline_num' = Len(returned)
    /\ pc' = "gen_clone"
    /\ UNCHANGED <<heap, disk, configs, it, pipeline, pipeline_perturb, mp, snippet,
                   rets, returned, files, warnings, inp, out>>

\* the caller sets a value inside a returned document; out counts the mutations
MutateSet ==
    /\ pc = "idle"
    /\ out < MaxMutations
    /\ \E i \in DOMAIN returned, path \in MutPaths :
          heap' = multi_set(heap, returned[i].config, path, Mutated).heap
    /\ out' = out + 1
    /\ UNCHANGED <<pc, disk, configs, it, pipeline_num, combi, pipeline,
                   pipeline_perturb, mp, snippet, rets, returned, files, warnings, inp>>

\* the caller deletes a spliced stage from a returned document
MutateDel ==
    /\ pc = "idle"
    /\ out < MaxMutations
    /\ \E i \in DOMAIN returned, path \in DelPaths :
          heap' = multi_del(heap, returned[i].config, path).heap
    /\ out' = out + 1
    /\ UNCHANGED <<pc, disk, configs, it, pipeline_num, combi, pipeline,
                   pipeline_perturb, mp, snippet, rets, returned, files, warnings, inp>>

NextAlias == LoadConfigs \/ CallAlias \/ Generate \/ Collect \/ MutateSet \/ MutateDel

SpecAlias == InitAlias /\ [][NextAlias]_vars

\* the dicts of each document, for the table entries and the returned documents
Owned ==
    [id \in DOMAIN configs |-> Reach(heap, configs[id].config)]

OwnedReturned ==
    [i \in DOMAIN returned |-> Reach(heap, returned[i].config)]

\* C9: after any calls of generate_pipeline_from_combi and any mutations of
\* the returned documents, every table entry has the name and the tree it
\* was loaded with, and no returned document shares a dict with another
\* returned document or with a table entry.
C9_TableIsolated ==
    pc # "load" =>
        /\ \A id \in DOMAIN disk :
              /\ id \in DOMAIN configs
              /\ configs[id].name = Str(id)
              /\ yaml_dump(heap, configs[id].config) = disk[id]
        /\ \A i \in DOMAIN returned :
              /\ \A id \in DOMAIN configs : OwnedReturned[i] \cap Owned[id] = {}
              /\ \A j \in DOMAIN returned : i # j => OwnedReturned[i] \cap OwnedReturned[j] = {}

\* two documents have been returned, the second spliced from the first's
\* base, and the caller has mutated them
C9_Witness ==
    /\ pc = "idle" /\ Len(returned) = 2 /\ out = MaxMutations
    /\ DocAt(yaml_dump(heap, returned[1].config), <<"anatomical_preproc", "run">>)
          = Scalar(Mutated)

----------------------------------------------------------------------------
(* The generator of the combinations *)

\* the loop variables of iter_pipeline_combis, as positions in the static
\* tables, and the counter of enumerate
FirstIt == [b |-> 1, d |-> 1, s |-> 1, c |-> 1, n |-> 1, count |-> 0]

Exhausted(i) == i.b > Len(PIPELINE_NAMES)

\* mutant: the loops over the connectivity methods and the nuisance methods
\* are nested the other way round
Advance_mut_swapped(i) ==
    IF i.c < Len(CONNECTIVITY_METHODS) THEN [i EXCEPT !.c = i.c + 1]
    ELSE IF i.n < Len(NUISANCE_METHODS) THEN [i EXCEPT !.c = 1, !.n = i.n + 1]
    ELSE IF i.s < Len(PIPELINE_STEPS) THEN [i EXCEPT !.c = 1, !.n = 1, !.s = i.s + 1]
    ELSE IF i.d < Len(PIPELINE_NAMES)
    THEN [i EXCEPT !.c = 1, !.n = 1, !.s = 1, !.d = i.d + 1]
    ELSE [i EXCEPT !.c = 1, !.n = 1, !.s = 1, !.d = 1, !.b = i.b + 1]

\* the next iteration of the five nested for loops
Advance(i) ==
    IF i.n < Len(NUISANCE_METHODS) THEN [i EXCEPT !.n = i.n + 1]
    ELSE IF i.c < Len(CONNECTIVITY_METHODS) THEN [i EXCEPT !.n = 1, !.c = i.c + 1]
    ELSE IF i.s < Len(PIPELINE_STEPS) THEN [i EXCEPT !.n = 1, !.c = 1, !.s = i.s + 1]
    ELSE IF i.d < Len(PIPELINE_NAMES)
    THEN [i EXCEPT !.n = 1, !.c = 1, !.s = 1, !.d = i.d + 1]
    ELSE [i EXCEPT !.n = 1, !.c = 1, !.s = 1, !.d = 1, !.b = i.b + 1]

\* the combination iter_pipeline_combis yields at these loop variables
Current(i) ==
    PipelineCombination(PIPELINE_NAMES[i.b], PIPELINE_NAMES[i.d], PIPELINE_STEPS[i.s],
                        CONNECTIVITY_METHODS[i.c], NUISANCE_METHODS[i.n])

\* the condition of iter_pipeline_combis_no_duplicates
NotDuplicate(c) == c.pipeline_id # c.pipeline_perturb_id

GenDir == "gen192_nofork"

\* the result is [files, raised]; fs: filename -> content of the output folder
dump(h, doc, fs, exist_ok) ==
    IF doc.file[2] \in DOMAIN fs /\ ~exist_ok
    THEN [files |-> fs, raised |-> TRUE]
    ELSE [files |-> (doc.file[2] :> yaml_dump(h, doc.config)) @@ fs, raised |-> FALSE]

----------------------------------------------------------------------------
(* main *)

\* for pipeline_label, pipeline_id in PIPELINE_NAMES.items(): exit(1) when missing
CheckPipelines ==
    /\ pc = "loaded"
    /\ IF \A i \in DOMAIN PIPELINE_NAMES : PIPELINE_NAMES[i].id \in DOMAIN configs
       THEN pc' = "loop" /\ it' = FirstIt
       ELSE pc' = "exit_1" /\ it' = it
    /\ UNCHANGED <<heap, disk, configs, pipeline_num, combi, pipeline, pipeline_perturb,
                   mp, snippet, rets, returned, files, warnings, inp, out>>

\* the generator passes over a combination of a pipeline with itself
IterSkip ==
    /\ pc = "loop"
    /\ ~Exhausted(it)
    /\ ~NotDuplicate(Current(it))
    /\ it' = Advance(it)
    /\ UNCHANGED <<pc, heap, disk, configs, pipeline_num, combi, pipeline,
                   pipeline_perturb, mp, snippet, rets, returned, files, warnings,
                   inp, out>>

\* the generator yields, enumerate numbers the combination, the loop body
\* computes the filename and calls generate_pipeline_from_combi
IterYield ==
    /\ pc = "loop"
    /\ ~Exhausted(it)
    /\ NotDuplicate(Current(it))
    /\ combi' = Current(it)
    /\ pipeline_num' = it.count
    /\ it' = [Advance(it) EXCEPT !.count = it.count + 1]
    /\ inp' = filename(Current(it), it.count)
    /\ pc' = "gen_clone"
    /\ UNCHANGED <<heap, disk, configs, pipeline, pipeline_perturb, mp, snippet, rets,
                   returned, files, warnings, out>>

IterStop ==
    /\ pc = "loop"
    /\ Exhausted(it)
    /\ pc' = "zip"
    /\ UNCHANGED <<heap, disk, configs, it, pipeline_num, combi, pipeline,
                   pipeline_perturb, mp, snippet, rets, returned, files, warnings,
                   inp, out>>

\* combined.file = dir_gen / filename; combined.dump(exist_ok=False).
\* FileExistsError is not caught: it ends main.
Dump ==
    /\ pc = "gen_return"
    /\ LET combined == [pipeline EXCEPT !.file = <<GenDir, inp>>]
           r == dump(heap, combined, files, FALSE)
       IN  /\ pipeline' = combined
           /\ files' = r.files
           /\ pc' = IF r.raised THEN "raised" ELSE "loop"
    /\ UNCHANGED <<heap, disk, configs, it, pipeline_num, combi, pipeline_perturb, mp,
                   snippet, rets, returned, warnings, inp, out>>

\* every folder of build is archived into dist
Zip ==
    /\ pc = "zip"
    /\ out' = {"cpac_source_configs", GenDir}
    /\ pc' = "done"
    /\ UNCHANGED <<heap, disk, configs, it, pipeline_num, combi, pipeline,
                   pipeline_perturb, mp, snippet, rets, returned, files, warnings, inp>>

Next ==
    \/ LoadConfigs \/ CheckPipelines \/ IterSkip \/ IterYield \/ IterStop
    \/ Generate \/ Dump \/ Zip

----------------------------------------------------------------------------
(* The runs of main *)

\* the reference enumeration: the Cartesian product in nested order, by
\* position arithmetic, without the tuples of a pipeline with itself
NProduct ==
    Len(PIPELINE_NAMES) * Len(PIPELINE_NAMES) * Len(PIPELINE_STEPS)
    * Len(CONNECTIVITY_METHODS) * Len(NUISANCE_METHODS)

Product ==
    [k \in 1..NProduct |->
        LET z == k - 1
            nN == Len(NUISANCE_METHODS)
            nC == Len(CONNECTIVITY_METHODS)
            nS == Len(PIPELINE_STEPS)
            nP == Len(PIPELINE_NAMES)
        IN  PipelineCombination(
                PIPELINE_NAMES[(z \div (nN * nC * nS * nP)) + 1],
                PIPELINE_NAMES[((z \div (nN * nC * nS)) % nP) + 1],
                PIPELINE_STEPS[((z \div (nN * nC)) % nS) + 1],
                CONNECTIVITY_METHODS[((z \div nN) % nC) + 1],
                NUISANCE_METHODS[(z % nN) + 1])]

DifferentIdentifiers(c) == c.pipeline_id # c.pipeline_perturb_id

Reference == SelectSeq(Product, DifferentIdentifiers)

\* the source folder: every pipeline, in two mixes of shapes, or one missing
MainDisks ==
    { (ID_ABCD :> DocFull(ID_ABCD)) @@ (ID_CCS :> DocFull(ID_CCS))
        @@ (ID_RBC :> DocFull(ID_RBC)) @@ (ID_fMRIPrep :> DocFull(ID_fMRIPrep)),
      (ID_ABCD :> DocExtra(ID_ABCD)) @@ (ID_CCS :> DocNull(ID_CCS))
        @@ (ID_RBC :> DocBare(ID_RBC)) @@ (ID_fMRIPrep :> DocScalar(ID_fMRIPrep)),
      (ID_ABCD :> DocFull(ID_ABCD)) @@ (ID_CCS :> DocFull(ID_CCS))
        @@ (ID_fMRIPrep :> DocFull(ID_fMRIPrep)) }

\* the sequence numbers whose output file may be left from an earlier run
LeftOver == {0, 2}

Stale == Scalar(Str(<<"s", "t", "a", "l", "e">>))

Init ==
    /\ disk \in MainDisks
    /\ \E E \in SUBSET LeftOver :
          files = [f \in {filename(Reference[k + 1], k) : k \in E} |-> Stale] @@ <<>>
    /\ pc = "load"
    /\ heap = <<>> /\ configs = <<>> /\ it = <<>> /\ pipeline_num = 0
    /\ combi = NoCombi /\ warnings = {}
    /\ IdleGen
    /\ inp = <<>> /\ out = {}

Spec == Init /\ [][Next]_vars

Generating ==
    pc \in {"gen_clone", "gen_merge", "gen_run", "gen_using", "gen_measure",
            "gen_nuisance", "gen_set_name", "gen_return"}

\* C1: the combination main generates with sequence number k is the k-th
\* element (from 0) of the Cartesian product in nested order base, donor,
\* step, connectivity method, nuisance flag without the tuples whose base and
\* donor identifiers are equal; no number is skipped or used twice, and a
\* run that reaches the end of the loop has generated the whole sequence.
C1_Enumeration ==
    /\ Generating =>
          /\ pipeline_num < Len(Reference)
          /\ combi = Reference[pipeline_num + 1]
          /\ it.count = pipeline_num + 1
    /\ pc \in {"zip", "done"} => it.count = Len(Reference)

\* the first combination after a block of self-combinations in the middle of
\* the run (CCS with CCS) is being generated: 96 tuples of the product stand
\* before it, 32 of them removed
C1_Witness ==
    /\ pc = "gen_return"
    /\ pipeline_num = 64
    /\ combi.pipeline_label = S_CCS /\ combi.pipeline_perturb_label = S_RBC
    /\ combi = Product[97]

\* every document the program holds: the table entries and, once cloned,
\* the two documents of generate_pipeline_from_combi
Documents ==
    Range(configs) \cup (IF pipeline = NoDoc THEN {} ELSE {pipeline, pipeline_perturb})

\* C5: after load_pipeline_config, clone, set_name and every step of
\* generate_pipeline_from_combi, every document has
\* tree["pipeline_setup"]["pipeline_name"] = name, and the document returned
\* for sequence number k has both equal to the name of the combination at k.
C5_NameInSync ==
    /\ \A doc \in Documents :
          /\ HasPath(yaml_dump(heap, doc.config), NamePath)
          /\ multi_get(heap, doc.config, NamePath) = doc.name
    /\ pc = "gen_return" =>
          /\ pipeline.name = Str(name(Reference[pipeline_num + 1], pipeline_num))
          /\ multi_get(heap, pipeline.config, NamePath) = pipeline.name

\* a document has been renamed for a sequence number other than 0, after a
\* merge that removed a stage the donor lacked
C5_Witness ==
    /\ pc = "gen_return"
    /\ pipeline_num = 3
    /\ pipeline.name = Str(name(combi, pipeline_num))
    /\ pipeline.name # configs[combi.pipeline_id].name
    /\ warnings # {}

Ended == pc \in {"raised", "done"}

\* C6: when the output path of one combination already exists, only that
\* combination is abandoned: the run goes on with every later combination,
\* so that when the run has ended the document of every combination whose
\* path did not exist before has been generated and written.
C6_ContinuesAfterFailure ==
    Ended =>
        \A k \in 0..(Len(Reference) - 1) : filename(Reference[k + 1], k) \in DOMAIN files

====
